---- MODULE Spec2Model ----
(***************************************************************************)
(* Model of ingredient_phrase_tagger/training/translator.py.               *)
(*                                                                         *)
(* A Python string is a sequence of one-character strings, so that the     *)
(* regular expressions, the tokenizer and the normalizer work on the       *)
(* characters.  A Decimal is the integer number of hundredths it denotes   *)
(* (every Decimal the parser builds is rounded to two places).             *)
(***************************************************************************)
EXTENDS Integers, Sequences, FiniteSets, TLC

VARIABLES pc, s, parsed, tags, best, data, newData,
          token, ingredientRow, ret, row, calls

vars == <<pc, s, parsed, tags, best, data, newData,
          token, ingredientRow, ret, row, calls>>

parseVars  == <<s, parsed>>
tagVars    == <<tags, best>>
prefixVars == <<data, newData>>
matchVars  == <<token, ingredientRow, ret>>
rowVars    == <<row, calls>>

(***************************************************************************)
(* Bounds of the model.                                                    *)
(***************************************************************************)
MaxLen == 6
MaxTags == 3
MaxData == 3
MaxTokens == 3
MaxCalls == 2

\* the value of a variable a specification does not use
Unused == <<>>

(***************************************************************************)
(* Values of the Python program.                                           *)
(***************************************************************************)
\* None, used for "no match" of _parseNumbers and for an absent field value
None == [type |-> "None", str |-> <<>>, num |-> 0]

\* decimal.Decimal, as hundredths
Decimal(h) == [type |-> "Decimal", str |-> <<>>, num |-> h]

\* a str value
Str(chars) == [type |-> "str", str |-> chars, num |-> 0]

\* a list value
List(l) == [type |-> "list", list |-> l]

\* an exception that leaves the function
Raise(e) == [type |-> "raise", exc |-> e]

IsRaise(v) == v.type = "raise"

Digits == {"0", "1", "2", "3", "4", "5", "6", "7", "8", "9"}

DigitVal(c) ==
  CASE c = "0" -> 0 [] c = "1" -> 1 [] c = "2" -> 2 [] c = "3" -> 3
    [] c = "4" -> 4 [] c = "5" -> 5 [] c = "6" -> 6 [] c = "7" -> 7
    [] c = "8" -> 8 [] c = "9" -> 9

\* \s of the re module
Whitespace == {" ", "\t", "\n", "\r"}

\* int(ss) and float(ss) of a string of digits
RECURSIVE IntOf(_)
IntOf(ss) ==
  IF ss = <<>> THEN 0
  ELSE 10 * IntOf(SubSeq(ss, 1, Len(ss) - 1)) + DigitVal(ss[Len(ss)])

\* the number of leading characters of ss that are in set cs
RECURSIVE Run(_, _)
Run(ss, cs) ==
  IF ss # <<>> /\ ss[1] \in cs THEN 1 + Run(Tail(ss), cs) ELSE 0

Drop(ss, n) == SubSeq(ss, n + 1, Len(ss))

\* "$" of the re module matches at the end and before a final newline
AtEnd(ss) == ss = <<>> \/ ss = <<"\n">>

(***************************************************************************)
(* utils.unclump: the token before numeric parsing, with the clumping      *)
(* character of a mixed number ("1$1/2") turned back into a space.         *)
(***************************************************************************)
unclump(t) == [i \in 1..Len(t) |-> IF t[i] = "$" THEN " " ELSE t[i]]

\* round(float(a) / float(b), 2) in hundredths: ties away from zero
RoundedQuotient(a, b) == (200 * a + b) \div (2 * b)

\* re.match('^\d+$', ss)
m3(ss) == LET k == Run(ss, Digits) IN k >= 1 /\ AtEnd(Drop(ss, k))

\* re.match(r'(\d+)\s+(\d)/(\d)', ss): anchored at the start only
m1(ss) ==
  LET k == Run(ss, Digits)
      w == Run(Drop(ss, k), Whitespace)
      rest == Drop(ss, k + w)
  IN  /\ k >= 1
      /\ w >= 1
      /\ Len(rest) >= 3
      /\ rest[1] \in Digits
      /\ rest[2] = "/"
      /\ rest[3] \in Digits

\* the groups of m1: integer part, numerator, denominator
m1Groups(ss) ==
  LET k == Run(ss, Digits)
      w == Run(Drop(ss, k), Whitespace)
      rest == Drop(ss, k + w)
  IN  <<IntOf(SubSeq(ss, 1, k)), DigitVal(rest[1]), DigitVal(rest[3])>>

\* re.match(r'^(\d)/(\d)$', ss)
m2(ss) ==
  /\ Len(ss) >= 3
  /\ ss[1] \in Digits
  /\ ss[2] = "/"
  /\ ss[3] \in Digits
  /\ AtEnd(Drop(ss, 3))

\* float(x) / float(y): the division raises on a zero denominator
DivisionRaises(den) == den = 0

_parseNumbers(str) ==
  LET ss == unclump(str) IN
  IF m3(ss)
    THEN Decimal(100 * IntOf(SubSeq(ss, 1, Run(ss, Digits))))
  ELSE IF m1(ss)
    THEN LET g == m1Groups(ss) IN
         IF DivisionRaises(g[3]) THEN Raise("ZeroDivisionError")
         ELSE Decimal(100 * g[1] + RoundedQuotient(g[2], g[3]))
  ELSE IF m2(ss)
    THEN IF DivisionRaises(DigitVal(ss[3])) THEN Raise("ZeroDivisionError")
         ELSE Decimal(RoundedQuotient(DigitVal(ss[1]), DigitVal(ss[3])))
  ELSE None

(***************************************************************************)
(* The collaborators in utils, from their contracts.  A feature column and *)
(* a label are written as one element of the string they are part of.      *)
(***************************************************************************)
\* the Unicode glyph of one half, one character of the display string
VulgarHalf == "U+00BD"

\* utils.cleanUnicodeFractions: each fraction glyph becomes its ASCII form
RECURSIVE cleanUnicodeFractions(_)
cleanUnicodeFractions(text) ==
  IF text = <<>> THEN <<>>
  ELSE (IF Head(text) = VulgarHalf THEN <<"1", "/", "2">> ELSE <<Head(text)>>)
       \o cleanUnicodeFractions(Tail(text))

\* utils.tokenize: the maximal runs of non-whitespace characters, in order
RECURSIVE tokenize(_)
tokenize(text) ==
  LET rest == Drop(text, Run(text, Whitespace))
      k == Run(rest, {rest[i] : i \in 1..Len(rest)} \ Whitespace)
  IN  IF rest = <<>> THEN <<>>
      ELSE <<SubSeq(rest, 1, k)>> \o tokenize(Drop(rest, k))

\* utils.normalizeToken: the token without its surrounding parentheses
normalizeToken(t) ==
  LET a == IF t # <<>> /\ t[1] = "(" THEN Tail(t) ELSE t
  IN  IF a # <<>> /\ a[Len(a)] = ")" THEN SubSeq(a, 1, Len(a) - 1) ELSE a

UpperCase == {"A", "B", "C", "D", "E", "F", "G", "H", "I", "J", "K", "L", "M",
              "N", "O", "P", "Q", "R", "S", "T", "U", "V", "W", "X", "Y", "Z"}

\* the category of the number of tokens of the display string
lengthGroup(n) ==
  IF n < 4 THEN "4" ELSE IF n < 8 THEN "8" ELSE IF n < 12 THEN "12"
  ELSE IF n < 16 THEN "16" ELSE IF n < 20 THEN "20" ELSE "X"

\* whether the token holds a parenthesis or lies between a token that opens
\* one and a token that closes one
insideParenthesis(t, toks) ==
  \/ \E n \in 1..Len(t) : t[n] \in {"(", ")"}
  \/ \E i, j, k \in 1..Len(toks) :
       /\ i < j /\ j < k
       /\ toks[i] # <<>> /\ toks[i][1] = "("
       /\ toks[j] = t
       /\ toks[k] # <<>> /\ toks[k][Len(toks[k])] = ")"

\* utils.getFeatures: position, length category, capitalization, parentheses
getFeatures(t, index, toks) ==
  << <<"I" \o ToString(index)>>,
     <<"L" \o lengthGroup(Len(toks))>>,
     <<IF t # <<>> /\ t[1] \in UpperCase THEN "YesCAP" ELSE "NoCAP">>,
     <<IF insideParenthesis(t, toks) THEN "YesPAREN" ELSE "NoPAREN">> >>

\* utils.joinLine: the columns separated by the delimiter
RECURSIVE joinLine(_)
joinLine(columns) ==
  IF columns = <<>> THEN <<>>
  ELSE IF Len(columns) = 1 THEN columns[1]
  ELSE columns[1] \o <<"\t">> \o joinLine(Tail(columns))

(***************************************************************************)
(* _matchUp                                                                *)
(***************************************************************************)
\* the fixed order of the fields
Keys == <<"index", "name", "qty", "range_end", "unit", "comment">>

\* key.upper()
upper(key) ==
  CASE key = "index" -> "INDEX" [] key = "name" -> "NAME"
    [] key = "qty" -> "QTY" [] key = "range_end" -> "RANGE_END"
    [] key = "unit" -> "UNIT" [] key = "comment" -> "COMMENT"

\* the inner loop over the tokens of a textual value: one append per
\* sub-token that equals the token after normalization
RECURSIVE MatchText(_, _, _)
MatchText(vts, tok, key) ==
  IF vts = <<>> THEN <<>>
  ELSE (IF normalizeToken(Head(vts)) = tok THEN <<upper(key)>> ELSE <<>>)
       \o MatchText(Tail(vts), tok, key)

\* the body of the loop for one key whose value is val
MatchKey(key, val, tok, decimalToken) ==
  IF val.type = "str" THEN MatchText(tokenize(val.str), tok, key)
  ELSE IF decimalToken # None
    THEN (IF val = decimalToken THEN <<upper(key)>> ELSE <<>>)
  ELSE <<>>

\* the loop over the keys; ingredientRow[key] raises for a key the record lacks
RECURSIVE MatchKeys(_, _, _, _, _)
MatchKeys(keys, acc, tok, decimalToken, ingredientRow_) ==
  IF keys = <<>> THEN List(acc)
  ELSE IF Head(keys) \notin DOMAIN ingredientRow_ THEN Raise("KeyError")
  ELSE MatchKeys(Tail(keys),
                 acc \o MatchKey(Head(keys), ingredientRow_[Head(keys)],
                                 tok, decimalToken),
                 tok, decimalToken, ingredientRow_)

_matchUp(token_, ingredientRow_) ==
  LET tok == normalizeToken(token_)
      decimalToken == _parseNumbers(tok)
  IN  IF IsRaise(decimalToken) THEN decimalToken
      ELSE MatchKeys(Keys, <<>>, tok, decimalToken, ingredientRow_)

(***************************************************************************)
(* _addPrefixes                                                            *)
(***************************************************************************)
InList(x, l) == \E i \in 1..Len(l) : l[i] = x

\* "%s-%s" % (p, t)
Prefixed(p, t) == p \o "-" \o t

\* the prefix of tag t given the previous token's tags (NoPrev before the
\* first token, where prevTags is None)
NoPrev == [type |-> "None"]

\* a prefix with the test of membership inverted
PrefixOfInverted(t, prevTags) ==
  IF prevTags = NoPrev \/ InList(t, prevTags.list) THEN "B" ELSE "I"

PrefixOf(t, prevTags) ==
  IF prevTags = NoPrev \/ ~InList(t, prevTags.list) THEN "B" ELSE "I"

\* the inner loop: the tags of one token, each with its prefix
NewTags(tags_, prevTags) ==
  [i \in 1..Len(tags_) |-> Prefixed(PrefixOf(tags_[i], prevTags), tags_[i])]

\* the outer loop from a given prevTags
\* a prefixer that keeps the previous tags over a token that matched nothing
RECURSIVE AddPrefixesFromSkipEmpty(_, _)
AddPrefixesFromSkipEmpty(data_, prevTags) ==
  IF data_ = <<>> THEN <<>>
  ELSE <<<<Head(data_)[1], NewTags(Head(data_)[2], prevTags)>>>>
       \o AddPrefixesFromSkipEmpty(Tail(data_),
            IF Head(data_)[2] = <<>> THEN prevTags ELSE List(Head(data_)[2]))

RECURSIVE AddPrefixesFrom(_, _)
AddPrefixesFrom(data_, prevTags) ==
  IF data_ = <<>> THEN <<>>
  ELSE <<<<Head(data_)[1], NewTags(Head(data_)[2], prevTags)>>>>
       \o AddPrefixesFrom(Tail(data_), List(Head(data_)[2]))

_addPrefixes(data_) == AddPrefixesFrom(data_, NoPrev)

(***************************************************************************)
(* _bestTag                                                                *)
(***************************************************************************)
CommentTags == {"B-COMMENT", "I-COMMENT"}

\* the for loop: the first tag that is not a comment tag, "OTHER" when the
\* loop ends without returning
\* a loop that falls back on the comment label instead of "OTHER"
RECURSIVE FirstNonCommentOrComment(_)
FirstNonCommentOrComment(tags_) ==
  IF tags_ = <<>> THEN "B-COMMENT"
  ELSE IF Head(tags_) \notin CommentTags THEN Head(tags_)
  ELSE FirstNonCommentOrComment(Tail(tags_))

RECURSIVE FirstNonComment(_)
FirstNonComment(tags_) ==
  IF tags_ = <<>> THEN "OTHER"
  ELSE IF Head(tags_) \notin CommentTags THEN Head(tags_)
  ELSE FirstNonComment(Tail(tags_))

\* a resolver without the case of a single tag
_bestTagNoSingle(tags_) == FirstNonComment(tags_)

_bestTag(tags_) ==
  IF Len(tags_) = 1 THEN tags_[1] ELSE FirstNonComment(tags_)

(***************************************************************************)
(* translate_row                                                           *)
(***************************************************************************)
\* one output line: the token, its features and its final tag, joined, and
\* the newline that ends it
\* a line without the newline that ends it
LineUnterminated(t, features, tags_) ==
  joinLine(<<t>> \o features \o << <<_bestTag(tags_)>> >>)

Line(t, features, tags_) ==
  joinLine(<<t>> \o features \o << <<_bestTag(tags_)>> >>) \o <<"\n">>

\* the loop over rowData that builds the translated string
RECURSIVE Translated(_, _, _)
Translated(rowData, i, toks) ==
  IF i > Len(rowData) THEN <<>>
  ELSE Line(rowData[i][1], getFeatures(rowData[i][1], i, toks), rowData[i][2])
       \o Translated(rowData, i + 1, toks)

\* the tokens of the display string of a record
TokensOf(row_) == tokenize(cleanUnicodeFractions(row_["input"].str))

\* del row['input']
WithoutInput(row_) == [k \in DOMAIN row_ \ {"input"} |-> row_[k]]

\* the list comprehension: _matchUp of every token against the record
MatchesOf(toks, row_) == [i \in 1..Len(toks) |-> _matchUp(toks[i], row_)]

Min(S) == CHOOSE x \in S : \A y \in S : x <= y

\* the call translate_row(row): its result (a str or the exception that
\* leaves it) and the record object as the call leaves it
translate_row(row_) ==
  IF "input" \notin DOMAIN row_
    THEN [result |-> Raise("KeyError"), row |-> row_]
  ELSE
    LET toks == TokensOf(row_)
        rest == WithoutInput(row_)
        matches == MatchesOf(toks, rest)
        raised == {i \in 1..Len(toks) : IsRaise(matches[i])}
    IN  IF raised # {}
          THEN [result |-> matches[Min(raised)], row |-> rest]
        ELSE
          LET rowData ==
                _addPrefixes([i \in 1..Len(toks) |->
                                <<toks[i], matches[i].list>>])
          IN  [result |-> Str(Translated(rowData, 1, toks)), row |-> rest]

(***************************************************************************)
(* The records and display strings the model draws from.                   *)
(***************************************************************************)
flour == <<"f", "l", "o", "u", "r">>
sifted == <<"s", "i", "f", "t", "e", "d">>
cups == <<"c", "u", "p", "s">>

Words == { <<"2">>, <<VulgarHalf>>, <<"1", "/", "0">>, flour,
           <<"(">> \o sifted \o <<")">> }

RECURSIVE JoinWords(_)
JoinWords(ws) ==
  IF ws = <<>> THEN <<>>
  ELSE IF Len(ws) = 1 THEN ws[1]
  ELSE ws[1] \o <<" ">> \o JoinWords(Tail(ws))

Displays == {JoinWords(ws) : ws \in UNION {[1..n -> Words] : n \in 0..MaxTokens}}

FieldValues ==
  [index     |-> {None, Decimal(200)},
   name      |-> {Str(flour), Str(flour \o <<" ">> \o flour)},
   qty       |-> {Decimal(200), Decimal(50)},
   range_end |-> {Decimal(200)},
   unit      |-> {Str(cups)},
   comment   |-> {None, Str(flour \o <<" ">> \o sifted)}]

KeySet == {Keys[i] : i \in 1..Len(Keys)}

\* the records with every structured field
FullRecords ==
  {[index |-> a, name |-> b, qty |-> c, range_end |-> d, unit |-> e,
    comment |-> f] :
     a \in FieldValues.index, b \in FieldValues.name, c \in FieldValues.qty,
     d \in FieldValues.range_end, e \in FieldValues.unit,
     f \in FieldValues.comment}

\* the records with every structured field or all but one
Records ==
  FullRecords \cup
  {[k \in KeySet \ {m} |-> r[k]] : r \in FullRecords, m \in KeySet}

\* a record with its display string
WithInput(r, text) ==
  [k \in DOMAIN r \cup {"input"} |-> IF k = "input" THEN Str(text) ELSE r[k]]

(***************************************************************************)
(* Spec: a caller translates one record object, up to MaxCalls times.      *)
(***************************************************************************)
Init ==
  /\ pc = "call"
  /\ \E r \in Records, text \in Displays : row = WithInput(r, text)
  /\ calls = <<>>
  /\ s = Unused /\ parsed = Unused
  /\ tags = Unused /\ best = Unused
  /\ data = Unused /\ newData = Unused
  /\ token = Unused /\ ingredientRow = Unused /\ ret = Unused

TranslateRow ==
  /\ Len(calls) < MaxCalls
  /\ LET r == translate_row(row)
     IN  /\ row' = r.row
         /\ calls' = Append(calls, [arg |-> row, result |-> r.result])
         /\ pc' = IF IsRaise(r.result) THEN "raised" ELSE "returned"
  /\ UNCHANGED <<parseVars, tagVars, prefixVars, matchVars>>

Next == TranslateRow

Spec == Init /\ [][Next]_vars

(***************************************************************************)
(* SpecParse: _parseNumbers on every string over a small alphabet.         *)
(***************************************************************************)
Alphabet == {"0", "1", "/", " ", "$", "a"}

Strings(n) == UNION {[1..k -> Alphabet] : k \in 0..n}

InitParse ==
  /\ pc = "call"
  /\ s \in Strings(MaxLen)
  /\ parsed = Unused
  /\ tags = Unused /\ best = Unused
  /\ data = Unused /\ newData = Unused
  /\ token = Unused /\ ingredientRow = Unused /\ ret = Unused
  /\ row = Unused /\ calls = Unused

ParseNumbers ==
  /\ pc = "call"
  /\ parsed' = _parseNumbers(s)
  /\ pc' = "done"
  /\ UNCHANGED <<s, tagVars, prefixVars, matchVars, rowVars>>

SpecParse == InitParse /\ [][ParseNumbers]_vars

(***************************************************************************)
(* SpecMatch: _matchUp on a token and a record.                            *)
(***************************************************************************)
InitMatch ==
  /\ pc = "call"
  /\ token \in Words \cup {cups, sifted, <<"(", "2", ")">>, <<"1", "/", "2">>}
  /\ ingredientRow \in Records
  /\ ret = Unused
  /\ s = Unused /\ parsed = Unused
  /\ tags = Unused /\ best = Unused
  /\ data = Unused /\ newData = Unused
  /\ row = Unused /\ calls = Unused

MatchUp ==
  /\ pc = "call"
  /\ ret' = _matchUp(token, ingredientRow)
  /\ pc' = "done"
  /\ UNCHANGED <<token, ingredientRow, parseVars, tagVars, prefixVars, rowVars>>

SpecMatch == InitMatch /\ [][MatchUp]_vars

(***************************************************************************)
(* SpecPrefix: _addPrefixes on a sequence of (token, match list) pairs.    *)
(***************************************************************************)
MatchLists ==
  { <<>>, <<"NAME">>, <<"COMMENT">>, <<"NAME", "COMMENT">>,
    <<"QTY", "RANGE_END">>, <<"COMMENT", "COMMENT">> }

Pairs == {<<t, l>> : t \in {flour, cups}, l \in MatchLists}

InitPrefix ==
  /\ pc = "call"
  /\ data \in UNION {[1..n -> Pairs] : n \in 0..MaxData}
  /\ newData = Unused
  /\ s = Unused /\ parsed = Unused
  /\ tags = Unused /\ best = Unused
  /\ token = Unused /\ ingredientRow = Unused /\ ret = Unused
  /\ row = Unused /\ calls = Unused

AddPrefixes ==
  /\ pc = "call"
  /\ newData' = _addPrefixes(data)
  /\ pc' = "done"
  /\ UNCHANGED <<data, parseVars, tagVars, matchVars, rowVars>>

SpecPrefix == InitPrefix /\ [][AddPrefixes]_vars

(***************************************************************************)
(* SpecTag: _bestTag on a list of prefixed labels.                         *)
(***************************************************************************)
Labels == {"B-NAME", "I-NAME", "B-COMMENT", "I-COMMENT", "B-QTY"}

InitTag ==
  /\ pc = "call"
  /\ tags \in UNION {[1..n -> Labels] : n \in 0..MaxTags}
  /\ best = Unused
  /\ s = Unused /\ parsed = Unused
  /\ data = Unused /\ newData = Unused
  /\ token = Unused /\ ingredientRow = Unused /\ ret = Unused
  /\ row = Unused /\ calls = Unused

BestTag ==
  /\ pc = "call"
  /\ best' = _bestTag(tags)
  /\ pc' = "done"
  /\ UNCHANGED <<tags, parseVars, prefixVars, matchVars, rowVars>>

SpecTag == InitTag /\ [][BestTag]_vars

(***************************************************************************)
(* What the claims speak of.                                               *)
(***************************************************************************)
\* the segments of text each ended by sep, and what follows the last sep
RECURSIVE Segments(_, _)
Segments(text, sep) ==
  LET k == Run(text, {text[i] : i \in 1..Len(text)} \ {sep})
  IN  IF k = Len(text) THEN <<>>
      ELSE <<SubSeq(text, 1, k)>> \o Segments(Drop(text, k + 1), sep)

RECURSIVE Remainder(_, _)
Remainder(text, sep) ==
  LET k == Run(text, {text[i] : i \in 1..Len(text)} \ {sep})
  IN  IF k = Len(text) THEN text ELSE Remainder(Drop(text, k + 1), sep)

\* the lines of an output and the fields of a line
LinesOf(out) == Segments(out, "\n")
FieldsOf(line) == Segments(line, "\t") \o <<Remainder(line, "\t")>>

\* the final label a line carries: its last field
EmittedLabel(line) == FieldsOf(line)[Len(FieldsOf(line))]

FieldNames == {upper(k) : k \in KeySet}

\* the calls made so far that returned, and what each was about
Returned == {k \in 1..Len(calls) : calls[k].result.type = "str"}

\* the call just made: the calls before it were the call just made in the
\* states before this one
Latest == {Len(calls)} \ {0}
CallTokens(k) == TokensOf(calls[k].arg)
CallMatches(k) == MatchesOf(CallTokens(k), WithoutInput(calls[k].arg))
CallLines(k) == LinesOf(calls[k].result.str)

\* every token of the call's record has a FieldMatchSet
AllMatched(k) ==
  /\ "input" \in DOMAIN calls[k].arg
  /\ LET matches == CallMatches(k)
     IN  \A i \in 1..Len(matches) : matches[i].type = "list"

\* the labels the prefixer and the resolver give the tokens, from the
\* tokens and their match lists
FinalLabels(toks, matches) ==
  LET prefixed == _addPrefixes([j \in 1..Len(toks) |->
                                 <<toks[j], matches[j].list>>])
  IN  [i \in 1..Len(toks) |-> _bestTag(prefixed[i][2])]

\* the final labels the lines of an output carry
EmittedLabels(lines) == [i \in 1..Len(lines) |-> EmittedLabel(lines[i])]

(***************************************************************************)
(* C1: translating the same record object twice in succession succeeds     *)
(* both times and the second call returns what the first returned.         *)
(***************************************************************************)
C1_Idempotent ==
  (Len(calls) >= 2 /\ calls[1].result.type = "str")
    => calls[2].result = calls[1].result

(***************************************************************************)
(* C2: _bestTag returns one non-empty label: the sole label of a list of   *)
(* one; otherwise the first label in list order that is neither            *)
(* "B-COMMENT" nor "I-COMMENT"; and "OTHER" when the list is empty or has  *)
(* two or more labels that are all comment labels.                         *)
(***************************************************************************)
NonComment(l) == {i \in 1..Len(l) : l[i] \notin {"B-COMMENT", "I-COMMENT"}}

C2_BestTag ==
  pc = "done" =>
    /\ best # ""
    /\ Len(tags) = 1 => best = tags[1]
    /\ (Len(tags) # 1 /\ NonComment(tags) # {})
         => best = tags[Min(NonComment(tags))]
    /\ (Len(tags) # 1 /\ NonComment(tags) = {}) => best = "OTHER"

\* a list of one comment label was resolved, and so was a longer list of
\* comment labels only
C2_Witness ==
  /\ pc = "done"
  /\ \/ tags = <<"I-COMMENT">> /\ best = "I-COMMENT"
     \/ tags = <<"B-COMMENT", "I-COMMENT">> /\ best = "OTHER"
     \/ tags = <<"B-COMMENT", "I-NAME", "B-QTY">> /\ best = "I-NAME"

(***************************************************************************)
(* C3: _addPrefixes returns a sequence of the same length and token order  *)
(* in which each token's labels are its match-list members in unchanged    *)
(* order, prefixed "B-" for the first token, and for a later token "I-"    *)
(* exactly when the field is in the raw match list of the immediately      *)
(* preceding token and "B-" otherwise; so an empty match list forces "B-"  *)
(* on every label of the next token.                                       *)
(***************************************************************************)
C3_AddPrefixes ==
  pc = "done" =>
    /\ Len(newData) = Len(data)
    /\ \A i \in 1..Len(data) :
         /\ newData[i][1] = data[i][1]
         /\ Len(newData[i][2]) = Len(data[i][2])
         /\ \A j \in 1..Len(data[i][2]) :
              newData[i][2][j] =
                IF i > 1 /\ InList(data[i][2][j], data[i - 1][2])
                  THEN "I-" \o data[i][2][j]
                  ELSE "B-" \o data[i][2][j]
         /\ (i > 1 /\ data[i - 1][2] = <<>>)
              => \A j \in 1..Len(data[i][2]) :
                   newData[i][2][j] = "B-" \o data[i][2][j]

\* three tokens were prefixed: the second, after an empty match list, begins
\* a span that the third continues
C3_Witness ==
  /\ pc = "done"
  /\ Len(data) = 3
  /\ data[1][2] = <<>>
  /\ newData[2][2] = <<"B-NAME">>
  /\ newData[3][2] = <<"I-NAME", "B-COMMENT">>

(***************************************************************************)
(* C4: _parseNumbers returns a decimal only when the whole string is all   *)
(* digits, or digits, whitespace and a one-digit numerator "/" a one-digit *)
(* denominator, or a one-digit numerator "/" a one-digit denominator, and  *)
(* returns no-match for every other string.                                *)
(***************************************************************************)
AllDigits(ss) == ss # <<>> /\ Run(ss, Digits) = Len(ss)

SimpleFraction(ss) ==
  Len(ss) = 3 /\ ss[1] \in Digits /\ ss[2] = "/" /\ ss[3] \in Digits

MixedNumber(ss) ==
  LET k == Run(ss, Digits)
      w == Run(Drop(ss, k), Whitespace)
  IN  k >= 1 /\ w >= 1 /\ SimpleFraction(Drop(ss, k + w))

IsNumberForm(ss) == AllDigits(ss) \/ MixedNumber(ss) \/ SimpleFraction(ss)

C4_WholeString ==
  (pc = "done" /\ ~IsNumberForm(unclump(s))) => parsed.type # "Decimal"

(***************************************************************************)
(* C5: the result of _matchUp holds each matching field name at most once, *)
(* in the order INDEX, NAME, QTY, RANGE_END, UNIT, COMMENT.                *)
(***************************************************************************)
Priority(f) == CHOOSE i \in 1..Len(Keys) : upper(Keys[i]) = f

C5_SetInOrder ==
  (pc = "done" /\ ret.type = "list") =>
    \A i, j \in 1..Len(ret.list) :
      i < j => Priority(ret.list[i]) < Priority(ret.list[j])

(***************************************************************************)
(* C6: for a record whose display string has n tokens, translate_row       *)
(* returns n lines, each ended by a newline, line i having the raw i-th    *)
(* token as its first field and the final label of the i-th token as its   *)
(* last field, and nothing else.                                           *)
(***************************************************************************)
C6_OutputShape ==
  \A k \in Latest :
    /\ AllMatched(k) => k \in Returned
    /\ k \in Returned =>
         LET toks == CallTokens(k)
             lines == CallLines(k)
             labels == FinalLabels(toks, CallMatches(k))
         IN  /\ Remainder(calls[k].result.str, "\n") = <<>>
             /\ Len(lines) = Len(toks)
             /\ \A i \in 1..Len(lines) :
                  /\ FieldsOf(lines[i])[1] = toks[i]
                  /\ EmittedLabel(lines[i]) = <<labels[i]>>

\* a record of three tokens was translated
C6_Witness ==
  /\ 1 \in Returned
  /\ Len(CallTokens(1)) = 3
  /\ EmittedLabels(CallLines(1)) =
       << <<"B-QTY">>, <<"B-NAME">>, <<"I-COMMENT">> >>

(***************************************************************************)
(* C7: for a record that lacks one of the structured fields, translate_row *)
(* fails with a missing-key failure and returns no output.                 *)
(***************************************************************************)
C7_MissingField ==
  \A k \in Latest :
    ("input" \in DOMAIN calls[k].arg /\ ~(KeySet \subseteq DOMAIN calls[k].arg))
      => calls[k].result = Raise("KeyError")

(***************************************************************************)
(* C8: the final label translate_row emits for a token is "OTHER" or       *)
(* "B-F" or "I-F" for a member F of that token's FieldMatchSet; and a      *)
(* token whose FieldMatchSet is empty gets "OTHER", an empty set being no  *)
(* failure.                                                                *)
(***************************************************************************)
C8_LabelFromOwnMatches ==
  \A k \in Latest :
    /\ AllMatched(k) => k \in Returned
    /\ k \in Returned =>
         LET labels == EmittedLabels(CallLines(k))
             matches == CallMatches(k)
         IN  /\ Len(labels) = Len(matches)
             /\ \A i \in 1..Len(labels) :
                  LET own == matches[i].list
                  IN  /\ \/ labels[i] = <<"OTHER">>
                         \/ \E j \in 1..Len(own) :
                              labels[i] \in { <<"B-" \o own[j]>>,
                                              <<"I-" \o own[j]>> }
                      /\ own = <<>> => labels[i] = <<"OTHER">>

\* a record was translated of which one token matched no field and another
\* matched one
C8_Witness ==
  /\ 1 \in Returned
  /\ LET labels == EmittedLabels(CallLines(1))
         matches == CallMatches(1)
     IN  \E i, j \in 1..Len(labels) :
           /\ matches[i].list = <<>>
           /\ labels[i] = <<"OTHER">>
           /\ matches[j].list # <<>>
           /\ labels[j] # <<"OTHER">>

(***************************************************************************)
(* C9: _parseNumbers returns a decimal or no-match for every string and    *)
(* never raises.                                                           *)
(***************************************************************************)
C9_Total == pc = "done" => parsed.type \in {"Decimal", "None"}

(***************************************************************************)
(* C10: in the labels translate_row emits for a record, "I-F" is never on  *)
(* the first token, and every "I-F" comes right after a token whose final  *)
(* label is "B-F" or "I-F".                                                *)
(***************************************************************************)
C10_WellFormed ==
  \A k \in Latest \cap Returned :
    LET labels == EmittedLabels(CallLines(k))
    IN  \A i \in 1..Len(labels) : \A f \in FieldNames :
          labels[i] = <<"I-" \o f>> =>
            /\ i > 1
            /\ labels[i - 1] \in { <<"B-" \o f>>, <<"I-" \o f>> }

(***************************************************************************)
(* C10 as amended: "I-F" is never on the first token, and every "I-F"      *)
(* comes right after a token whose FieldMatchSet holds F, whatever that    *)
(* token's final label is.                                                 *)
(***************************************************************************)
C10_InsideAfterMatch ==
  \A k \in Latest \cap Returned :
    LET labels == EmittedLabels(CallLines(k))
        matches == CallMatches(k)
    IN  /\ Len(labels) = Len(matches)
        /\ \A i \in 1..Len(labels) : \A f \in FieldNames :
             labels[i] = <<"I-" \o f>> =>
               /\ i > 1
               /\ InList(f, matches[i - 1].list)

\* a record was translated in which "I-COMMENT" follows a token labelled
\* "B-NAME" that also matched the comment
C10_Witness ==
  /\ 1 \in Returned
  /\ LET labels == EmittedLabels(CallLines(1))
     IN  \E i \in 2..Len(labels) :
           /\ labels[i] = <<"I-COMMENT">>
           /\ labels[i - 1] = <<"B-NAME">>
           /\ InList("COMMENT", CallMatches(1)[i - 1].list)

====
